---- MODULE Spec2Model ----
(***************************************************************************)
(* State-machine model of AudioInterpolator (src/interpolator.py): the     *)
(* streaming 4x upsampler with its 9-sample history window                 *)
(* (previous_samples) and its carried frame (chunk_end_sample).            *)
(*                                                                         *)
(* Samples are fixed-point integers.  The three spline interpolants are    *)
(* evaluated exactly (in rationals) on their 11 node values and rounded    *)
(* down to the sample grid, where the program rounds to float64.           *)
(***************************************************************************)
EXTENDS Integers, Sequences, FiniteSets, TLC

\* ---------------------------------------------------------------- bounds
MaxFrames == 3
MaxResets == 1

\* the sample values the input stream is drawn from
Samples == {0, 16}

\* ------------------------------------------------------- program constants
channels == 2
WindowLen == 9
Factor == 4

Channels == 0..(channels - 1)
KnownMethods == {"cubic", "akima", "pchip", "repeat"}
\* a selector outside the Literal of __init__'s annotation
Methods == KnownMethods \cup {"linear"}

ZeroFrame == [c \in Channels |-> 0]
ZeroWindow == [r \in 1..WindowLen |-> ZeroFrame]

\* ----------------------------------------------------------------- helpers
Abs(n) == IF n < 0 THEN -n ELSE n

RECURSIVE Dot(_, _, _)
Dot(w, y, n) == IF n = 0 THEN 0 ELSE Dot(w, y, n - 1) + w[n] * y[n]

\* input_chunk.reshape(-1, channels): a flat interleaved array to frames
Reshape(flat) ==
    [k \in 1..(Len(flat) \div channels) |->
        [c \in Channels |-> flat[channels * (k - 1) + c + 1]]]

\* output.flatten(): frames to a flat interleaved array
Flatten(frames) ==
    [k \in 1..(channels * Len(frames)) |->
        frames[((k - 1) \div channels) + 1][(k - 1) % channels]]

\* variant: the roll goes the other way, row j+4 takes row j
Roll_forward(ps) ==
    [r \in 1..WindowLen |-> ps[((r - 1 + WindowLen - Factor) % WindowLen) + 1]]

\* np.roll(a, -4, axis=0) on the whole (9, 2) array: row j takes row j+4
Roll(ps) == [r \in 1..WindowLen |-> ps[((r - 1 + Factor) % WindowLen) + 1]]

\* variant: the block is stored in the last 4 rows of every channel
SetLast4_allChannels(ps, channel, block) ==
    [r \in 1..WindowLen |->
        IF r > WindowLen - Factor
        THEN [c \in Channels |-> block[r - (WindowLen - Factor)]]
        ELSE ps[r]]

\* a[-4:, channel] = block
SetLast4(ps, channel, block) ==
    [r \in 1..WindowLen |->
        IF r > WindowLen - Factor
        THEN [ps[r] EXCEPT ![channel] = block[r - (WindowLen - Factor)]]
        ELSE ps[r]]

\* a[:, channel]
Column(ps, channel) == [r \in 1..WindowLen |-> ps[r][channel]]

\* ------------------------------------------------------------ interpolants
\* Nodes sit at x = 1..9, 13, 17; the evaluation points 10, 11, 12 lie in
\* the interval [9, 13] of width 4.  With t = k/4 the cubic Hermite basis,
\* times 64, is H00, H01 on the end values and G0, G1 on 4x the end slopes.
H00 == <<54, 32, 10>>
H01 == <<10, 32, 54>>
G0 == <<9, 8, 3>>
G1 == <<-3, -8, -9>>

\* value at 9 + k of the Hermite cubic on [9, 13] with end values ya, yb
\* and end slopes (pa / qa) / 4, (pb / qb) / 4, where qa, qb > 0
Hermite(ya, yb, pa, qa, pb, qb) ==
    [k \in 1..3 |->
        ((H00[k] * ya + H01[k] * yb) * qa * qb
            + G0[k] * pa * qb + G1[k] * pb * qa) \div (64 * qa * qb)]

\* CubicSpline(x_points, y_points)(x_new), not-a-knot ends: the spline is
\* linear in the node values; CubicW[k] / CubicDen are its exact weights
\* at 9 + k for the fixed abscissae.
CubicDen == 1813120
CubicW ==
    << <<56, -448, 2072, -8064, 30240, -112896, 421344, -1572480,
         2814469, 268898, -30071>>,
       <<64, -512, 2368, -9216, 34560, -129024, 481536, -1797120,
         2536616, 760592, -66744>>,
       <<40, -320, 1480, -5760, 21600, -80640, 300960, -1123200,
         1443735, 1325270, -70045>> >>

CubicSpline(y) == [k \in 1..3 |-> Dot(CubicW[k], y, 11) \div CubicDen]

\* PchipInterpolator(x_points, y_points)(x_new): the slope at an interior
\* node is 0 when the neighbouring secants differ in sign or one is 0,
\* otherwise their weighted harmonic mean.
PchipInterpolator(y) ==
    LET a == y[9] - y[8]
        b == y[10] - y[9]
        c == y[11] - y[10]
        flat9 == a * b <= 0
        flat13 == b * c <= 0
        p9 == IF flat9 THEN 0 ELSE IF a > 0 THEN 20 * a * b ELSE -20 * a * b
        q9 == IF flat9 THEN 1 ELSE Abs(3 * b + 8 * a)
        p13 == IF flat13 THEN 0 ELSE IF b > 0 THEN 2 * b * c ELSE -2 * b * c
        q13 == IF flat13 THEN 1 ELSE Abs(b + c)
    IN  Hermite(y[9], y[10], p9, q9, p13, q13)

\* Akima1DInterpolator(x_points, y_points)(x_new): s6..s9 are 4x the
\* secant slopes of the last four intervals, s10 the extrapolated one.
Akima1DInterpolator(y) ==
    LET s6 == 4 * (y[8] - y[7])
        s7 == 4 * (y[9] - y[8])
        s8 == y[10] - y[9]
        s9 == y[11] - y[10]
        s10 == 2 * s9 - s8
        f1a == Abs(s9 - s8)
        f2a == Abs(s7 - s6)
        f1b == Abs(s10 - s9)
        f2b == Abs(s8 - s7)
        p9 == IF f1a + f2a = 0 THEN s9 + s6 ELSE f1a * s7 + f2a * s8
        q9 == IF f1a + f2a = 0 THEN 2 ELSE f1a + f2a
        p13 == IF f1b + f2b = 0 THEN s10 + s7 ELSE f1b * s8 + f2b * s9
        q13 == IF f1b + f2b = 0 THEN 2 ELSE f1b + f2b
    IN  Hermite(y[9], y[10], p9, q9, p13, q13)

\* interpolator(x_new) for the methods that construct a spline
Interpolate(m, y) ==
    CASE m = "cubic" -> CubicSpline(y)
      [] m = "akima" -> Akima1DInterpolator(y)
      [] m = "pchip" -> PchipInterpolator(y)

\* ------------------------------------------------------------------- state
VARIABLES
    method,             \* self.method
    previous_samples,   \* self.previous_samples: 9 rows of 2 channels
    chunk_end_sample,   \* self.chunk_end_sample: 1 row of 2 channels
    pc,                 \* position of the running interpolate_chunk call
    input_samples,      \* local: [carry] ++ frames of the chunk
    output,             \* local: the (output_len, 2) output array
    channel,            \* local: outer loop counter
    i,                  \* local: inner loop counter
    ret,                \* value returned by the last call of the stream
    raised,             \* the last call ended in ValueError
    last_chunk,         \* argument of the last call of the stream
    stream,             \* frames of the calls that returned, since stream start
    chunks,             \* their non-empty arguments, in call order
    emitted,            \* concatenation of the returned arrays, same period
    splines,            \* interpolators constructed during the last call
    op,                 \* the method called last
    fed,                \* frames passed to interpolate_chunk so far
    resets,             \* reset() calls made
    origin,             \* how the current stream was started
    pairs,              \* per channel, the sample pairs interpolated since then
    dpc,                \* position of the running process_file call
    file,               \* frames of the input file, as stored (int16)
    pos,                \* frames of the input file read so far
    file_chunk,         \* process_file local input_chunk
    processed_frames,   \* process_file local processed_frames
    out_file            \* samples written to the output file (24-bit words)

vars == <<method, previous_samples, chunk_end_sample, pc, input_samples,
          output, channel, i, ret, raised, last_chunk, stream, chunks,
          emitted, splines, op, fed, resets, origin, pairs, dpc, file, pos,
          file_chunk, processed_frames, out_file>>

\* the state of process_file
driver == <<dpc, file, pos, file_chunk, processed_frames, out_file>>

\* no process_file call is running and none has run
NoDriver ==
    /\ dpc = "idle"
    /\ file = <<>>
    /\ pos = 0
    /\ file_chunk = <<>>
    /\ processed_frames = 0
    /\ out_file = <<>>

fields == <<method, previous_samples, chunk_end_sample>>
locals == <<input_samples, output, channel, i>>

\* ------------------------------------------------- pieces of the handler
\* variant: the carried frame is counted as a frame of the chunk
OutputLen_withCarry(samples) == Len(samples) * Factor

\* output_len = (len(input_samples) - 1) * 4
OutputLen(samples) == (Len(samples) - 1) * Factor

\* np.zeros((output_len, channels))
ZeroOutput(n) == [k \in 1..n |-> ZeroFrame]

\* variant: the two samples of the pair enter the nodes in reverse order
YPoints_swapped(ps, samples, ch, idx) ==
    Column(ps, ch) \o <<samples[idx + 2][ch], samples[idx + 1][ch]>>

\* the 11 node values: previous_samples[:, channel] ++ input_samples[i:i+2]
YPoints(ps, samples, ch, idx) ==
    Column(ps, ch) \o <<samples[idx + 1][ch], samples[idx + 2][ch]>>

\* variant: a spline block ends with the later sample of the pair
Block_passNext(m, ps, samples, ch, idx) ==
    IF m = "repeat"
    THEN [k \in 1..Factor |-> samples[idx + 1][ch]]
    ELSE Interpolate(m, YPoints(ps, samples, ch, idx))
            \o <<samples[idx + 2][ch]>>

\* variant: the hold method repeats the later sample of the pair
Block_holdLater(m, ps, samples, ch, idx) ==
    IF m = "repeat"
    THEN [k \in 1..Factor |-> samples[idx + 2][ch]]
    ELSE Interpolate(m, YPoints(ps, samples, ch, idx))
            \o <<samples[idx + 1][ch]>>

\* the 4 values written to output[output_idx:output_idx+4, channel]
Block(m, ps, samples, ch, idx) ==
    IF m = "repeat"
    THEN [k \in 1..Factor |-> samples[idx + 1][ch]]
    ELSE Interpolate(m, YPoints(ps, samples, ch, idx))
            \o <<samples[idx + 1][ch]>>

\* output[output_idx:output_idx+4, channel] = block
WriteBlock(out, ch, idx, block) ==
    [k \in 1..Len(out) |->
        IF k > Factor * idx /\ k <= Factor * idx + Factor
        THEN [out[k] EXCEPT ![ch] = block[k - Factor * idx]]
        ELSE out[k]]

\* update of previous_samples after a pair: roll, then store the 4 points
Advance(m, ps, samples, ch, idx, out) ==
    IF m = "repeat"
    THEN SetLast4(Roll(ps), ch, [k \in 1..Factor |-> samples[idx + 1][ch]])
    ELSE SetLast4(Roll(ps), ch,
            [k \in 1..3 |-> out[Factor * idx + k][ch]]
                \o <<samples[idx + 1][ch]>>)

\* variant: the carry is taken from the first row of the working sequence
StoreCarry_first(carry, samples, ch) ==
    [carry EXCEPT ![1][ch] = samples[1][ch]]

\* chunk_end_sample[0, channel] = input_samples[len(input_samples)-1, channel]
StoreCarry(carry, samples, ch) ==
    [carry EXCEPT ![1][ch] = samples[Len(samples)][ch]]

\* -------------------------------------------------------------------- Init
\* AudioInterpolator.__init__
Init ==
    /\ method \in Methods
    /\ previous_samples = ZeroWindow
    /\ chunk_end_sample = <<ZeroFrame>>
    /\ pc = "idle"
    /\ input_samples = <<>>
    /\ output = <<>>
    /\ channel = 0
    /\ i = 0
    /\ ret = <<>>
    /\ raised = FALSE
    /\ last_chunk = <<>>
    /\ stream = <<>>
    /\ chunks = <<>>
    /\ emitted = <<>>
    /\ splines = 0
    /\ op = "__init__"
    /\ fed = 0
    /\ resets = 0
    /\ origin = "fresh"
    /\ pairs = [c \in Channels |-> <<>>]
    /\ NoDriver

\* ----------------------------------------------------------------- actions
FramesOf(n) == [1..n -> [Channels -> Samples]]

\* variant: the empty-chunk return also zeroes the carried frame
Call_dropCarry(input_chunk) ==
    /\ pc = "idle"
    /\ fed + Len(input_chunk) \div channels <= MaxFrames
    /\ op' = "interpolate_chunk"
    /\ fed' = fed + Len(input_chunk) \div channels
    /\ last_chunk' = input_chunk
    /\ raised' = FALSE
    /\ splines' = 0
    /\ IF Len(input_chunk) = 0
       THEN /\ ret' = <<>>
            /\ chunk_end_sample' = <<ZeroFrame>>
            /\ UNCHANGED <<pc, locals, chunks>>
       ELSE /\ input_samples' = chunk_end_sample \o Reshape(input_chunk)
            /\ output' = ZeroOutput(OutputLen(chunk_end_sample \o Reshape(input_chunk)))
            /\ channel' = 0
            /\ i' = 0
            /\ pc' = "loop"
            /\ UNCHANGED <<ret, chunks, chunk_end_sample>>
    /\ UNCHANGED <<method, previous_samples, stream, emitted, resets, origin,
                   pairs>>

\* interpolate_chunk, entry: the empty-chunk return, or the set-up of the
\* working sequence and of the output array
Call(input_chunk) ==
    /\ pc = "idle"
    /\ fed + Len(input_chunk) \div channels <= MaxFrames
    /\ op' = "interpolate_chunk"
    /\ fed' = fed + Len(input_chunk) \div channels
    /\ last_chunk' = input_chunk
    /\ raised' = FALSE
    /\ splines' = 0
    /\ IF Len(input_chunk) = 0
       THEN /\ ret' = <<>>
            /\ UNCHANGED <<pc, locals, chunks>>
       ELSE /\ input_samples' = chunk_end_sample \o Reshape(input_chunk)
            /\ output' = ZeroOutput(OutputLen(chunk_end_sample \o Reshape(input_chunk)))
            /\ channel' = 0
            /\ i' = 0
            /\ pc' = "loop"
            /\ UNCHANGED <<ret, chunks>>
    /\ UNCHANGED <<fields, stream, emitted, resets, origin, pairs>>

\* the else branch of the method dispatch: raise ValueError, which ends
\* the call and discards its locals
Raise ==
    /\ pc = "loop"
    /\ channel < channels
    /\ i < Len(input_samples) - 1
    /\ method \notin KnownMethods
    /\ raised' = TRUE
    /\ pc' = "idle"
    /\ input_samples' = <<>>
    /\ output' = <<>>
    /\ channel' = 0
    /\ i' = 0
    /\ UNCHANGED <<fields, ret, last_chunk, stream, chunks, emitted,
                   splines, op, fed, resets, origin, pairs>>

\* one iteration of the inner loop: the pair (i, i+1) of the channel
PairStep ==
    /\ pc = "loop"
    /\ channel < channels
    /\ i < Len(input_samples) - 1
    /\ method \in KnownMethods
    /\ output' = WriteBlock(output, channel, i,
                    Block(method, previous_samples, input_samples, channel, i))
    /\ previous_samples' =
            Advance(method, previous_samples, input_samples, channel, i,
                WriteBlock(output, channel, i,
                    Block(method, previous_samples, input_samples, channel, i)))
    /\ splines' = IF method = "repeat" THEN splines ELSE splines + 1
    /\ i' = i + 1
    /\ pairs' = [pairs EXCEPT ![channel] =
                    Append(@, <<input_samples[i + 1][channel],
                                input_samples[i + 2][channel]>>)]
    /\ UNCHANGED <<method, chunk_end_sample, pc, input_samples, channel, ret,
                   raised, last_chunk, stream, chunks, emitted, op, fed,
                   resets, origin>>

\* variant: the inner loop of the next channel starts at the second pair
ChannelEnd_skipPair ==
    /\ pc = "loop"
    /\ channel < channels
    /\ i = Len(input_samples) - 1
    /\ chunk_end_sample' = StoreCarry(chunk_end_sample, input_samples, channel)
    /\ channel' = channel + 1
    /\ i' = 1
    /\ UNCHANGED <<method, previous_samples, pc, input_samples, output, ret,
                   raised, last_chunk, stream, chunks, emitted, splines,
                   op, fed, resets, origin, pairs>>

\* end of the inner loop: store the channel's carry, go to the next channel
ChannelEnd ==
    /\ pc = "loop"
    /\ channel < channels
    /\ i = Len(input_samples) - 1
    /\ chunk_end_sample' = StoreCarry(chunk_end_sample, input_samples, channel)
    /\ channel' = channel + 1
    /\ i' = 0
    /\ UNCHANGED <<method, previous_samples, pc, input_samples, output, ret,
                   raised, last_chunk, stream, chunks, emitted, splines,
                   op, fed, resets, origin, pairs>>

\* variant: the call also emits the frame it holds back as the carry
Return_flush ==
    /\ pc = "loop"
    /\ channel = channels
    /\ ret' = Flatten(output)
    /\ stream' = stream \o Reshape(last_chunk)
    /\ chunks' = Append(chunks, last_chunk)
    /\ emitted' = emitted \o Flatten(output) \o Flatten(chunk_end_sample)
    /\ pc' = "idle"
    /\ input_samples' = <<>>
    /\ output' = <<>>
    /\ channel' = 0
    /\ i' = 0
    /\ UNCHANGED <<fields, raised, last_chunk, splines, op, fed, resets,
                   origin, pairs>>

\* return output.flatten()
Return ==
    /\ pc = "loop"
    /\ channel = channels
    /\ ret' = Flatten(output)
    /\ stream' = stream \o Reshape(last_chunk)
    /\ chunks' = Append(chunks, last_chunk)
    /\ emitted' = emitted \o Flatten(output)
    /\ pc' = "idle"
    /\ input_samples' = <<>>
    /\ output' = <<>>
    /\ channel' = 0
    /\ i' = 0
    /\ UNCHANGED <<fields, raised, last_chunk, splines, op, fed, resets,
                   origin, pairs>>

\* variant: reset() builds the zero window without storing it in the object
Reset_local ==
    /\ pc = "idle"
    /\ resets < MaxResets
    /\ resets' = resets + 1
    /\ origin' = "reset"
    /\ stream' = <<>>
    /\ chunks' = <<>>
    /\ emitted' = <<>>
    /\ ret' = <<>>
    /\ last_chunk' = <<>>
    /\ splines' = 0
    /\ op' = "reset"
    /\ pairs' = [c \in Channels |-> <<>>]
    /\ UNCHANGED <<fields, pc, locals, raised, fed>>

\* AudioInterpolator.reset
Reset ==
    /\ pc = "idle"
    /\ resets < MaxResets
    /\ previous_samples' = ZeroWindow
    /\ resets' = resets + 1
    /\ origin' = "reset"
    /\ stream' = <<>>
    /\ chunks' = <<>>
    /\ emitted' = <<>>
    /\ ret' = <<>>
    /\ last_chunk' = <<>>
    /\ splines' = 0
    /\ op' = "reset"
    /\ pairs' = [c \in Channels |-> <<>>]
    /\ UNCHANGED <<method, chunk_end_sample, pc, locals, raised, fed>>

\* the caller clears the carry right after reset(), before the next call
ClearCarry ==
    /\ pc = "idle"
    /\ op = "reset"
    /\ origin = "reset"
    /\ chunk_end_sample' = <<ZeroFrame>>
    /\ origin' = "reset_clear"
    /\ UNCHANGED <<method, previous_samples, pc, locals, ret, raised,
                   last_chunk, stream, chunks, emitted, splines, op, fed,
                   resets, pairs>>

Next ==
    \/ /\ \E n \in 0..MaxFrames :
            \E frames \in FramesOf(n) : Call(Flatten(frames))
       /\ UNCHANGED driver
    \/ Raise /\ UNCHANGED driver
    \/ PairStep /\ UNCHANGED driver
    \/ ChannelEnd /\ UNCHANGED driver
    \/ Return /\ UNCHANGED driver
    \/ Reset /\ UNCHANGED driver
    \/ ClearCarry /\ UNCHANGED driver

Spec == Init /\ [][Next]_vars

\* ------------------------------------------- the handler as one function
\* the inner loop of one channel, from pair idx to the last pair
RECURSIVE PairLoop(_, _, _, _, _, _)
PairLoop(m, ps, samples, ch, idx, out) ==
    IF idx >= Len(samples) - 1
    THEN [previous_samples |-> ps, output |-> out]
    ELSE LET written == WriteBlock(out, ch, idx, Block(m, ps, samples, ch, idx))
         IN  PairLoop(m, Advance(m, ps, samples, ch, idx, written),
                      samples, ch, idx + 1, written)

\* the outer loop, from channel ch to the last channel
RECURSIVE ChannelLoop(_, _, _, _, _, _)
ChannelLoop(m, ps, carry, samples, ch, out) ==
    IF ch >= channels
    THEN [previous_samples |-> ps, chunk_end_sample |-> carry,
          ret |-> Flatten(out)]
    ELSE LET done == PairLoop(m, ps, samples, ch, 0, out)
         IN  ChannelLoop(m, done.previous_samples,
                         StoreCarry(carry, samples, ch), samples, ch + 1,
                         done.output)

\* interpolate_chunk of a recognized method as a function of the object's
\* fields and of the chunk: the fields after the call and the value returned
interpolate_chunk(m, ps, carry, input_chunk) ==
    IF Len(input_chunk) = 0
    THEN [previous_samples |-> ps, chunk_end_sample |-> carry, ret |-> <<>>]
    ELSE ChannelLoop(m, ps, carry, carry \o Reshape(input_chunk), 0,
                     ZeroOutput(OutputLen(carry \o Reshape(input_chunk))))

\* ------------------------------------------------------- process_file
\* frames read per chunk: self.chunk_size, 1024 in the source, scaled down
chunk_size == 2

\* sample values stored in the input file (int16); silent files only for
\* the two Hermite methods, whose exact arithmetic on values of size 256
\* leaves the range of the model's integers
FileSamples(m) == IF m \in {"akima", "pchip"} THEN {0} ELSE {0, 1}

\* the input files of n frames
FilesOf(m, n) == [1..n -> [Channels -> FileSamples(m)]]

\* WavHandler.read_wav_chunk at frame p of the file: the next size frames,
\* or those that remain, as a flat array of int16 values times 256
read_wav_chunk(f, p, size) ==
    LET n == IF Len(f) - p < size THEN Len(f) - p ELSE size
    IN  [k \in 1..(channels * n) |->
            256 * f[p + ((k - 1) \div channels) + 1][(k - 1) % channels]]

\* variant: the clip range is symmetric about zero
Clip_symmetric(v) ==
    IF v < -8388607 THEN -8388607 ELSE IF v > 8388607 THEN 8388607 ELSE v

\* np.clip(chunk, -8388608, 8388607) of one value
Clip(v) ==
    IF v < -8388608 THEN -8388608 ELSE IF v > 8388607 THEN 8388607 ELSE v

\* WavHandler.write_wav_chunk: each value clipped, converted to int32, and
\* the 3 low bytes of its little-endian two's complement form written,
\* here as the 24-bit word they spell
write_wav_chunk(chunk) ==
    [k \in 1..Len(chunk) |-> Clip(chunk[k]) % 16777216]

\* process_file up to the loop: the file is valid and opened,
\* processed_frames = 0, self.interpolator.reset()
StartFile ==
    /\ dpc \in {"idle", "returned", "failed"}
    /\ \E n \in 0..(MaxFrames - fed) : \E f \in FilesOf(method, n) : file' = f
    /\ pos' = 0
    /\ processed_frames' = 0
    /\ file_chunk' = <<>>
    /\ out_file' = <<>>
    /\ dpc' = "read"
    /\ Reset

\* input_chunk = read_wav_chunk(input_wav, self.chunk_size); an empty chunk
\* breaks the loop, the files are closed and process_file returns
ReadChunk ==
    /\ dpc = "read"
    /\ file_chunk' = read_wav_chunk(file, pos, chunk_size)
    /\ pos' = pos + Len(read_wav_chunk(file, pos, chunk_size)) \div channels
    /\ dpc' = IF Len(read_wav_chunk(file, pos, chunk_size)) = 0
              THEN "returned" ELSE "interpolate"
    /\ UNCHANGED <<method, previous_samples, chunk_end_sample, pc, locals,
                   ret, raised, last_chunk, stream, chunks, emitted, splines,
                   op, fed, resets, origin, pairs, file, processed_frames,
                   out_file>>

\* output_chunk = self.interpolator.interpolate_chunk(input_chunk): entry
Interpolating ==
    /\ dpc = "interpolate"
    /\ Call(file_chunk)
    /\ dpc' = "call"
    /\ UNCHANGED <<file, pos, file_chunk, processed_frames, out_file>>

\* the call raised ValueError: the except clause returns False
CallFailed ==
    /\ dpc = "call"
    /\ Raise
    /\ dpc' = "failed"
    /\ UNCHANGED <<file, pos, file_chunk, processed_frames, out_file>>

\* the call returned output_chunk
CallReturned ==
    /\ dpc = "call"
    /\ Return
    /\ dpc' = "write"
    /\ UNCHANGED <<file, pos, file_chunk, processed_frames, out_file>>

\* variant: the progress counter advances by samples, not by frames
WriteChunk_countSamples ==
    /\ dpc = "write"
    /\ out_file' = out_file \o write_wav_chunk(ret)
    /\ processed_frames' = processed_frames + Len(file_chunk)
    /\ dpc' = "read"
    /\ UNCHANGED <<method, previous_samples, chunk_end_sample, pc, locals,
                   ret, raised, last_chunk, stream, chunks, emitted, splines,
                   op, fed, resets, origin, pairs, file, pos, file_chunk>>

\* write_wav_chunk(output_wav, output_chunk);
\* processed_frames += len(input_chunk) // 2
WriteChunk ==
    /\ dpc = "write"
    /\ out_file' = out_file \o write_wav_chunk(ret)
    /\ processed_frames' = processed_frames + Len(file_chunk) \div 2
    /\ dpc' = "read"
    /\ UNCHANGED <<method, previous_samples, chunk_end_sample, pc, locals,
                   ret, raised, last_chunk, stream, chunks, emitted, splines,
                   op, fed, resets, origin, pairs, file, pos, file_chunk>>

\* process_file calls on one AudioUpscaler, one after the other
NextFile ==
    \/ StartFile
    \/ ReadChunk
    \/ Interpolating
    \/ dpc = "call" /\ PairStep /\ UNCHANGED driver
    \/ dpc = "call" /\ ChannelEnd /\ UNCHANGED driver
    \/ CallFailed
    \/ CallReturned
    \/ WriteChunk

\* process_file is synchronous and single-threaded: a call that has a next
\* step takes it
SpecFile == Init /\ [][NextFile]_vars /\ WF_vars(NextFile)

\* --------------------------------------- one sample through the files
\* the values of a signed 16-bit sample
Int16 == -32768..32767

\* a new AudioUpscaler('repeat') has started process_file on a file of two
\* frames, the first holding a 16-bit value, the second silent
InitWav ==
    /\ method = "repeat"
    /\ previous_samples = ZeroWindow
    /\ chunk_end_sample = <<ZeroFrame>>
    /\ pc = "idle"
    /\ input_samples = <<>>
    /\ output = <<>>
    /\ channel = 0
    /\ i = 0
    /\ ret = <<>>
    /\ raised = FALSE
    /\ last_chunk = <<>>
    /\ stream = <<>>
    /\ chunks = <<>>
    /\ emitted = <<>>
    /\ splines = 0
    /\ op = "reset"
    /\ fed = 0
    /\ resets = 1
    /\ origin = "reset"
    /\ pairs = [c \in Channels |-> <<>>]
    /\ dpc = "read"
    /\ \E s \in Int16 : file = <<[c \in Channels |-> s], ZeroFrame>>
    /\ pos = 0
    /\ file_chunk = <<>>
    /\ processed_frames = 0
    /\ out_file = <<>>

\* the read loop of that process_file call
NextWav ==
    \/ ReadChunk
    \/ Interpolating
    \/ dpc = "call" /\ PairStep /\ UNCHANGED driver
    \/ dpc = "call" /\ ChannelEnd /\ UNCHANGED driver
    \/ CallReturned
    \/ WriteChunk

SpecWav == InitWav /\ [][NextWav]_vars

\* ------------------------------------------------------------------ claims
\* sample k (from 0) of a channel in a flat interleaved array
SampleAt(flat, ch, k) == flat[channels * k + ch + 1]

\* a call has returned and the stream began on a freshly constructed object
FreshIdle == pc = "idle" /\ origin = "fresh" /\ method \in KnownMethods

\* C1: on a fresh interpolator, the concatenated outputs of the calls made
\* so far equal the output of one call on the whole stream, for each of the
\* four methods.
C1_ChunkTransparency ==
    FreshIdle =>
        emitted = interpolate_chunk(method, ZeroWindow, <<ZeroFrame>>,
                                    Flatten(stream)).ret


\* frame k (from 0) of the working sequence [zero frame] ++ stream
Delayed(k) == (<<ZeroFrame>> \o stream)[k + 1]

\* C2 (as claimed): after n frames, output sample 4k+3 of each channel is
\* input sample k of that channel, for k = 0..n-1.
C2_PassThroughSameIndex ==
    FreshIdle =>
        \A k \in 0..(Len(stream) - 1) : \A ch \in Channels :
            SampleAt(emitted, ch, Factor * k + 3) = stream[k + 1][ch]

\* C2 (amended): after n frames, output sample 4k+3 of each channel is
\* sample k of [zero frame] ++ stream: zero for k = 0 and input sample k-1
\* for k = 1..n-1.
C2_PassThroughDelayed ==
    FreshIdle =>
        \A k \in 0..(Len(stream) - 1) : \A ch \in Channels :
            SampleAt(emitted, ch, Factor * k + 3) = Delayed(k)[ch]

C2_Witness ==
    FreshIdle /\ method # "repeat" /\ Len(stream) = 3 /\ Len(chunks) >= 2
        /\ stream[1][0] # 0 /\ stream[2][1] # stream[1][1]
        /\ SampleAt(emitted, 0, 7) = stream[1][0]

\* the samples of one channel of a flat interleaved array
ChannelSamples(flat, ch) ==
    [k \in 1..(Len(flat) \div channels) |-> SampleAt(flat, ch, k - 1)]

\* the samples emitted so far for the channel of the running call: those
\* of the calls that returned, then the blocks already written by this call
EmittedOf(ch) ==
    ChannelSamples(emitted, ch) \o [k \in 1..(Factor * i) |-> output[k][ch]]

\* the 9 newest of a sample sequence, zeros standing before its start
Last9(seq) ==
    LET padded == [k \in 1..WindowLen |-> 0] \o seq
    IN  SubSeq(padded, Len(padded) - WindowLen + 1, Len(padded))

\* a pair of the running call is about to be interpolated
AboutToInterpolate ==
    /\ pc = "loop"
    /\ channel < channels
    /\ i < Len(input_samples) - 1
    /\ method \in KnownMethods

\* C3: whenever a pair is about to be interpolated for a channel on an
\* interpolator that started fresh, previous_samples[:, channel] is the 9
\* most recently emitted samples of that channel, oldest first.
C3_HistoryWindow ==
    (AboutToInterpolate /\ origin = "fresh") =>
        Column(previous_samples, channel) = Last9(EmittedOf(channel))

\* the method called last is interpolate_chunk and it returned normally
Returned == pc = "idle" /\ op = "interpolate_chunk" /\ ~raised

\* C4: a call given f frames returns 8f interleaved values, and the
\* outputs of the calls of a stream add up to 8 values per frame fed.
C4_Length ==
    Returned =>
        /\ Len(ret) = channels * Factor * (Len(last_chunk) \div channels)
        /\ Len(emitted) = channels * Factor * Len(stream)

C4_Witness ==
    Returned /\ Len(chunks) = 2 /\ Len(last_chunk) = 4 /\ Len(stream) = 3
        /\ Len(ret) = 16

\* the step on which a call with a non-empty chunk returns
IsReturn == pc = "loop" /\ pc' = "idle" /\ ~raised'

\* the step of a call with an empty chunk
IsEmptyCall == pc = "idle" /\ pc' = "idle" /\ op' = "interpolate_chunk"

\* C5: chunk_end_sample is the zero frame until a frame is fed; a call
\* with a non-empty chunk leaves in it the last frame of the chunk; a call
\* with an empty chunk leaves it unchanged.
C5_CarrySample ==
    /\ [](fed = 0 => chunk_end_sample = <<ZeroFrame>>)
    /\ [][/\ IsReturn =>
                chunk_end_sample'[1] =
                    Reshape(last_chunk)[Len(last_chunk) \div channels]
          /\ IsEmptyCall => chunk_end_sample' = chunk_end_sample]_vars

C5_Witness ==
    /\ Returned /\ Len(chunks) = 2 /\ Len(last_chunk) = 4
    /\ chunk_end_sample[1] = Reshape(last_chunk)[2]
    /\ chunk_end_sample[1][0] # chunk_end_sample[1][1]

\* C6: an unrecognized method selector is rejected at construction, so
\* every interpolate_chunk call that returns normally, a call with an empty
\* chunk included, runs on an instance whose method is one of the four.
C6_UnknownMethodRejected == Returned => method \in KnownMethods

\* the step of one pair of the running call
IsPairStep == AboutToInterpolate /\ i' = i + 1

\* the block written by the pair step for its channel
StepBlock == [k \in 1..Factor |-> output'[Factor * i + k][channel]]

\* C7: a pair step of one channel drops the 4 oldest samples of that
\* channel's window and appends the 4 new ones, and leaves the 9 slots of
\* the other channel as they were.
C7_ChannelSlicesIndependent ==
    [][IsPairStep =>
        /\ Column(previous_samples', channel) =
                SubSeq(Column(previous_samples, channel), Factor + 1, WindowLen)
                    \o StepBlock
        /\ \A other \in Channels \ {channel} :
                Column(previous_samples', other) =
                    Column(previous_samples, other)]_vars

\* C8: a call with an empty chunk returns an empty array and leaves
\* previous_samples, chunk_end_sample and method unchanged.
C8_EmptyChunk ==
    [][IsEmptyCall =>
        /\ ret' = <<>>
        /\ previous_samples' = previous_samples
        /\ chunk_end_sample' = chunk_end_sample
        /\ method' = method]_vars

C8_Witness ==
    /\ Returned /\ last_chunk = <<>> /\ ret = <<>>
    /\ Len(stream) >= 1
    /\ chunk_end_sample # <<ZeroFrame>>
    /\ previous_samples # ZeroWindow

\* C9: with method 'repeat' the block of a pair is the earlier sample of
\* the pair 4 times, whatever the window holds; no interpolator is
\* constructed; and the channel's window is advanced with those 4 values.
C9_HoldExactness ==
    [][(IsPairStep /\ method = "repeat") =>
        /\ \A k \in 1..Factor :
                output'[Factor * i + k][channel] = input_samples[i + 1][channel]
        /\ \A k \in 1..Factor :
                previous_samples'[WindowLen - Factor + k][channel] =
                    input_samples[i + 1][channel]
        /\ splines' = splines
        /\ splines = 0]_vars

C9_Witness ==
    /\ method = "repeat" /\ pc = "loop" /\ channel = 1 /\ i = 2
    /\ input_samples[2][1] # 0
    /\ input_samples[3][1] # input_samples[2][1]
    /\ \A k \in 1..Factor : output[Factor + k][1] = input_samples[2][1]
    /\ Column(previous_samples, 0) # [r \in 1..WindowLen |-> previous_samples[1][0]]

\* the outputs of a freshly constructed interpolator of method m fed the
\* chunks cs one call after the other, concatenated
RECURSIVE FreshRun(_, _, _, _, _)
FreshRun(m, ps, carry, cs, acc) ==
    IF cs = <<>>
    THEN acc
    ELSE LET r == interpolate_chunk(m, ps, carry, Head(cs))
         IN  FreshRun(m, r.previous_samples, r.chunk_end_sample, Tail(cs),
                      acc \o r.ret)

\* C10: after reset() and the clearing of chunk_end_sample, the calls made
\* return what a freshly constructed interpolator of the same method
\* returns for the same chunks.
C10_ResetEquivalence ==
    (pc = "idle" /\ origin = "reset_clear" /\ method \in KnownMethods) =>
        emitted = FreshRun(method, ZeroWindow, <<ZeroFrame>>, chunks, <<>>)

C10_Witness ==
    /\ pc = "idle" /\ origin = "reset_clear" /\ method = "cubic"
    /\ fed = 3 /\ Len(chunks) = 2 /\ Len(stream) = 2
    /\ stream[1][0] # 0
    /\ emitted = FreshRun(method, ZeroWindow, <<ZeroFrame>>, chunks, <<>>)

\* ------------------------------------------- spline pair step on a ramp
\* the three spline methods of the dispatch
SplineMethods == KnownMethods \ {"repeat"}

\* n frames of the ramp 0, 4, 8, ... on both channels, from frame `first`
RampFrames(first, n) ==
    [j \in 1..n |-> [c \in Channels |-> Factor * (first + j - 1)]]

\* the window of a channel whose last 9 emitted samples lie on the line
\* that the ramp continues: nodes 1..9 of the line through (13, -4), (17, 0)
RampWindow == [r \in 1..WindowLen |-> [c \in Channels |-> r - 17]]

\* the frame carried at node 13 of that line
RampCarry == <<[c \in Channels |-> 0 - Factor]>>

\* inputs of the pair step: a spline method, and either the fields of a new
\* object or a window and carry lying on the ramp's line
InitLinear ==
    /\ method \in SplineMethods
    /\ \/ /\ previous_samples = ZeroWindow
          /\ chunk_end_sample = <<ZeroFrame>>
          /\ origin = "fresh"
       \/ /\ previous_samples = RampWindow
          /\ chunk_end_sample = RampCarry
          /\ origin = "ramp"
    /\ pc = "idle"
    /\ input_samples = <<>>
    /\ output = <<>>
    /\ channel = 0
    /\ i = 0
    /\ ret = <<>>
    /\ raised = FALSE
    /\ last_chunk = <<>>
    /\ stream = <<>>
    /\ chunks = <<>>
    /\ emitted = <<>>
    /\ splines = 0
    /\ op = "__init__"
    /\ fed = 0
    /\ resets = 0
    /\ pairs = [c \in Channels |-> <<>>]
    /\ NoDriver

\* the ramp is fed in chunks of any length, each continuing the previous one
NextLinear ==
    \/ /\ \E n \in 0..MaxFrames : Call(Flatten(RampFrames(fed, n)))
       /\ UNCHANGED driver
    \/ PairStep /\ UNCHANGED driver
    \/ ChannelEnd /\ UNCHANGED driver
    \/ Return /\ UNCHANGED driver

SpecLinear == InitLinear /\ [][NextLinear]_vars

\* the linear progression ending at the earlier sample of the pair
LineBlock == [k \in 1..Factor |-> input_samples[i + 1][channel] - (Factor - k)]

NodesOnRamp ==
    /\ \A r \in 1..WindowLen :
           previous_samples[r][channel]
               = input_samples[i + 1][channel] - (WindowLen + Factor - r)
    /\ input_samples[i + 2][channel] = input_samples[i + 1][channel] + Factor

CanonAdvance(ps, ch, block) ==
    [r \in 1..WindowLen |->
        [c \in Channels |->
            IF c # ch THEN ps[r][c]
            ELSE IF r <= WindowLen - Factor THEN ps[r + Factor][c]
                 ELSE block[r - (WindowLen - Factor)]]]

\* steps 1-4 of one pair for the channels from ch on
RECURSIVE CanonChannels(_, _, _, _, _, _)
CanonChannels(m, ps, samples, idx, ch, out) ==
    IF ch >= channels
    THEN [previous_samples |-> ps, output |-> out]
    ELSE LET block == Block(m, ps, samples, ch, idx)
         IN  CanonChannels(m, CanonAdvance(ps, ch, block), samples, idx,
                           ch + 1, WriteBlock(out, ch, idx, block))

\* every consecutive pair of the working sequence, in order
RECURSIVE CanonPairs(_, _, _, _, _)
CanonPairs(m, ps, samples, idx, out) ==
    IF idx >= Len(samples) - 1
    THEN [previous_samples |-> ps, output |-> out]
    ELSE LET done == CanonChannels(m, ps, samples, idx, 0, out)
         IN  CanonPairs(m, done.previous_samples, samples, idx + 1,
                        done.output)

\* process(chunk): the fields after the call and the value returned
CanonProcess(m, ps, carry, input_chunk) ==
    IF Len(input_chunk) = 0
    THEN [previous_samples |-> ps, chunk_end_sample |-> carry, ret |-> <<>>]
    ELSE LET samples == carry \o Reshape(input_chunk)
             done    == CanonPairs(m, ps, samples, 0,
                                   ZeroOutput(OutputLen(samples)))
         IN  [previous_samples |-> done.previous_samples,
              chunk_end_sample |-> <<samples[Len(samples)]>>,
              ret |-> Flatten(done.output)]

\* a sequence of chunks through process, from the given fields
RECURSIVE CanonRun(_, _, _, _, _)
CanonRun(m, ps, carry, cs, acc) ==
    IF cs = <<>>
    THEN [previous_samples |-> ps, chunk_end_sample |-> carry, ret |-> acc]
    ELSE LET r == CanonProcess(m, ps, carry, Head(cs))
         IN  CanonRun(m, r.previous_samples, r.chunk_end_sample, Tail(cs),
                      acc \o r.ret)

\* C12: for every method and every sequence of chunks on a fresh instance,
\* the channel-major loop leaves the same outputs, the same window and the
\* same carry as the pair-major algorithm that advances each channel's
\* window right after its pair.
C12_CanonicalEquivalence ==
    FreshIdle =>
        LET c == CanonRun(method, ZeroWindow, <<ZeroFrame>>, chunks, <<>>)
        IN  /\ emitted = c.ret
            /\ previous_samples = c.previous_samples
            /\ chunk_end_sample = c.chunk_end_sample

\* the consecutive pairs of a channel in the first n+1 frames of a sequence
PairsOf(seq, ch, n) == [k \in 1..n |-> <<seq[k][ch], seq[k + 1][ch]>>]

\* C13: over the calls made on a fresh instance, the pairs interpolated for
\* each channel are the consecutive pairs of [zero frame] ++ stream, each
\* once and in stream order, also across chunk boundaries.
C13_PairCoverage ==
    FreshIdle =>
        \A ch \in Channels :
            pairs[ch] = PairsOf(<<ZeroFrame>> \o stream, ch, Len(stream))

\* three one-frame calls have returned: two pairs straddle a chunk boundary
C13_Witness ==
    /\ FreshIdle /\ Len(chunks) = 3 /\ Len(stream) = 3
    /\ stream[1][0] # stream[2][0]
    /\ \A ch \in Channels : Len(pairs[ch]) = 3

\* a pair step of one of the three spline methods
IsSplineStep == IsPairStep /\ method \in SplineMethods

\* the 11 node values the claim names: the channel's window, then the pair
StepNodes ==
    Column(previous_samples, channel)
        \o <<input_samples[i + 1][channel], input_samples[i + 2][channel]>>

\* C14: a spline pair step interpolates the channel's 9 window values
\* followed by frame[i] and frame[i+1], emits [v10, v11, v12, frame[i]],
\* and leaves that channel's window equal to its former slots 5..9
\* followed by those 4 values.
C14_SinglePairStep ==
    [][IsSplineStep =>
        /\ StepBlock = Interpolate(method, StepNodes)
                           \o <<input_samples[i + 1][channel]>>
        /\ Column(previous_samples', channel)
             = [r \in 1..WindowLen |->
                   IF r <= WindowLen - Factor
                   THEN previous_samples[r + Factor][channel]
                   ELSE StepBlock[r - (WindowLen - Factor)]]]_vars

\* the second pair of channel 0 has been interpolated from a window that
\* held the first block, and both blocks are in the window
C14_Witness ==
    /\ method \in SplineMethods /\ pc = "loop" /\ channel = 0 /\ i = 2
    /\ input_samples[2][0] # 0
    /\ previous_samples[WindowLen][0] = input_samples[2][0]
    /\ previous_samples[WindowLen - Factor][0] = input_samples[1][0]
    /\ \E r \in 2..4 : previous_samples[r][0] # 0
    /\ \E r \in 6..8 : previous_samples[r][0] # 0

\* C15: after the reset step with which process_file starts a file, the
\* interpolator is in the stream-start state: the window is all zero and
\* the carry is the zero frame, whatever was processed before.
C15_StreamStartAfterReset ==
    (pc = "idle" /\ op = "reset" /\ origin = "reset") =>
        /\ previous_samples = ZeroWindow
        /\ chunk_end_sample = <<ZeroFrame>>

\* a flat interleaved chunk with every channel but ch set to zero
OnlyChannel(flat, ch) ==
    [k \in 1..Len(flat) |-> IF (k - 1) % channels = ch THEN flat[k] ELSE 0]

\* the same for each chunk of a sequence of chunks
OnlyChannelOf(cs, ch) == [k \in 1..Len(cs) |-> OnlyChannel(cs[k], ch)]

\* C16: the channel-c output of a run is a function of the channel-c input
\* and of the chunking alone: it equals the channel-c output of the run on
\* the stream whose other channel is silent, so any two streams that agree
\* on channel c and are chunked the same way give the same channel-c
\* output, for every method.
C16_ChannelNonInterference ==
    FreshIdle =>
        \A ch \in Channels :
            ChannelSamples(emitted, ch)
              = ChannelSamples(FreshRun(method, ZeroWindow, <<ZeroFrame>>,
                                        OnlyChannelOf(chunks, ch), <<>>), ch)

\* a spline run of two chunks in which the other channel is not silent and
\* the channels differ
C16_Witness ==
    /\ FreshIdle /\ method \in SplineMethods
    /\ Len(chunks) = 2 /\ Len(stream) = 3
    /\ stream[1][0] # 0 /\ stream[1][1] = 0 /\ stream[2][1] # 0
    /\ \E k \in 1..Len(emitted) : emitted[k] # 0

\* the whole input file as read_wav_chunk decodes it
DecodedFile == read_wav_chunk(file, 0, Len(file))

\* pair steps taken since the stream started, both channels together
PairSteps == Len(pairs[0]) + Len(pairs[1])

\* process_file has left its read loop through the break
FileDone == dpc = "returned" /\ method \in KnownMethods

\* C17: for a recognized method the read loop of process_file ends; by
\* then every frame of the file has been passed to interpolate_chunk once
\* and in file order, in chunks of at most chunk_size frames, and
\* processed_frames is the number of frames of the file; every output
\* chunk is in the output file before the next read; and every call has
\* taken 2 * (frames of its chunk) pair steps when it returns.
C17_DriverTermination ==
    /\ (dpc = "read" /\ method \in KnownMethods) ~> (dpc = "returned")
    /\ [](FileDone =>
            /\ processed_frames = Len(file)
            /\ Flatten(stream) = DecodedFile
            /\ \A k \in 1..Len(chunks) :
                   Len(chunks[k]) \div channels <= chunk_size
            /\ out_file = write_wav_chunk(emitted))
    /\ [](dpc = "read" => out_file = write_wav_chunk(emitted))
    /\ [](dpc \in {"interpolate", "write"} => PairSteps = 2 * Len(stream))

\* a file of two chunks has been upsampled with a spline method
C17_Witness ==
    /\ FileDone /\ method = "cubic"
    /\ Len(file) = MaxFrames /\ Len(chunks) = 2
    /\ file[1][0] = 1 /\ processed_frames = MaxFrames
    /\ PairSteps = 2 * MaxFrames

\* C18: after a fresh interpolator has consumed n >= 1 frames in any
\* chunking, each channel's output has 4n samples, sample 3 is 0, sample
\* 4j+3 is input frame j-1 for j = 1..n-1, and the last input frame is in
\* no output position: it is held in chunk_end_sample, also after calls
\* that bring no new frame.
C18_OneFrameDelay ==
    (FreshIdle /\ Len(stream) >= 1) =>
        \A ch \in Channels :
            /\ Len(ChannelSamples(emitted, ch)) = Factor * Len(stream)
            /\ SampleAt(emitted, ch, 3) = 0
            /\ \A j \in 1..(Len(stream) - 1) :
                   SampleAt(emitted, ch, Factor * j + 3) = stream[j][ch]
            /\ chunk_end_sample[1][ch] = stream[Len(stream)][ch]

\* a hold stream whose only non-zero frame is the last one: nothing of it
\* is in the output, also after an empty call
C18_Witness ==
    /\ FreshIdle /\ method = "repeat"
    /\ Len(stream) = 3 /\ Len(chunks) = 2 /\ last_chunk = <<>>
    /\ stream[1][0] = 0 /\ stream[2][0] = 0 /\ stream[3][0] # 0
    /\ \A k \in 1..(Factor * 3) : SampleAt(emitted, 0, k - 1) = 0
    /\ chunk_end_sample[1][0] # 0

\* the signed value that a 24-bit word of the output file spells
Signed24(w) == IF w >= 8388608 THEN w - 16777216 ELSE w

\* C19: every 16-bit value s comes out of read_wav_chunk as s * 256, which
\* is inside the clip range of write_wav_chunk, so the samples that the
\* 'repeat' method emits (the input samples passed through) are written
\* with their own value.
C19_NoClipping ==
    /\ \A k \in 1..Len(file_chunk) : Clip(file_chunk[k]) = file_chunk[k]
    /\ dpc \in {"read", "returned"} =>
          /\ Len(out_file) = Len(emitted)
          /\ \A k \in 1..Len(out_file) : Signed24(out_file[k]) = emitted[k]
    /\ dpc = "returned" =>
          \A k \in 5..8 : SampleAt(emitted, 0, k - 1) = 256 * file[1][0]

\* the most negative 16-bit value has gone through the files
C19_Witness ==
    /\ dpc = "returned" /\ file[1][0] = -32768
    /\ Len(out_file) = 2 * Factor * channels
    /\ \E k \in 1..Len(out_file) : out_file[k] = 8388608

====
